---- MODULE Spec2Model ----
(***************************************************************************)
(* Workable job scraper, main actor (src/src/main.ts).                     *)
(*                                                                         *)
(* The model follows one run of the actor: the input is read and the       *)
(* target count clamped, one LIST request is seeded, and a PlaywrightCrawler*)
(* with maxConcurrency 2 runs the LIST and DETAIL handlers.  A handler is  *)
(* an async function; every await is a suspension point, so a handler      *)
(* execution is a small state machine (field pc).  The crawler retries a   *)
(* request whose handler throws or exceeds requestHandlerTimeoutSecs; a     *)
(* timed-out handler is not cancelled (a JavaScript promise cannot be), it *)
(* keeps running beside the retry until it returns, throws, or the process *)
(* exits.                                                                  *)
(*                                                                         *)
(* URLs are numbered: request 0 is the search URL (label LIST), request u  *)
(* in 1..NumUrls is the detail URL that is the u-th link of the listing.   *)
(***************************************************************************)
EXTENDS Integers, Sequences, FiniteSets

\* ---- bounds of the model
NumUrls == 3
MaxWanted == 2
MaxRetries == 1
MaxFaults == 2
ClampSlack == 3
MaxKeywordLen == 1
MaxLocLen == 3
MaxPages == 2

\* ---- program constants
maxConcurrency == 2
MinResults == 1
MaxResults == 500
DefaultResults == 50
RequestsSlack == 50
variantConcurrency == 5
PageLimit == 50

VARIABLES
    input,          \* input.resultsWanted: [given, value]
    resultsWanted,  \* the clamped target count
    numLinks,       \* number of distinct /view/ links the listing page holds
    seenUrls,       \* const seenUrls = new Set<string>()
    collected,      \* let collected = 0
    dataset,        \* Dataset.pushData: number of records stored, by item.url
    reqState,       \* request queue: none | pending | running | handled | failed
    retryCount,     \* request.retryCount
    execs,          \* handler executions alive: [req, try, pc, zombie, idx]
    addCalls,       \* number of crawler.addRequests calls made for each detail url
    kvStore,        \* keys written to the key-value store
    failedLog,      \* requests logged by failedRequestHandler
    run,            \* init | running | done | exited
    summary,        \* count logged by the final log.info, -1 before
    markersSeen,    \* some LIST execution got past the marker wait
    searchUrl,      \* const searchUrl = buildSearchUrl()
    hasNextPage,    \* the listing page shows a next-page link
    clock,          \* the time new Date() gives
    scroll,         \* the scroll loop of the LIST handler: i, lastSeen, seen
    page,           \* the content of the page a handler reads, where followed
    item            \* const item = { url, title, company, ... }

vars == <<input, resultsWanted, numLinks, seenUrls, collected, dataset, reqState,
          retryCount, execs, addCalls, kvStore, failedLog, run, summary, markersSeen,
          searchUrl, hasNextPage, clock, scroll, page, item>>

\* What the steps of the crawl leave alone: the variables written before the
\* crawler runs, the features of the listing page, and the content of the
\* detail page and of the item built from it, and the clock (the crawl is
\* followed by the number of records per url; the fields of a record are
\* followed in ExtractSpec).
aux == <<searchUrl, hasNextPage, clock, scroll, page, item>>

\* the scroll loop before its first pass: i counts the passes that did not
\* break, seen and prev are the counts after the last pass and the one before
NoScroll == [i |-> 0, lastSeen |-> 0, seen |-> 0, prev |-> 0, passes |-> 0, done |-> FALSE]

\* no detail page read, no item built
NoPage == [loaded |-> FALSE]
NoItem == [built |-> FALSE]

Urls == 1..NumUrls
ListReq == 0
Reqs == {ListReq} \cup Urls

Min(a, b) == IF a < b THEN a ELSE b
Max(a, b) == IF a > b THEN a ELSE b

\* the clamp with || in place of ??: a given 0 takes the default
ClampResultsOr(in) ==
    Max(MinResults,
        Min(MaxResults, IF in.given /\ in.value # 0 THEN in.value ELSE DefaultResults))

\* Math.max(1, Math.min(500, input.resultsWanted ?? 50))
ClampResults(in) ==
    Max(MinResults, Min(MaxResults, IF in.given THEN in.value ELSE DefaultResults))

\* maxRequestsPerCrawl: resultsWanted + 50
maxRequestsPerCrawl == resultsWanted + RequestsSlack

ActiveExecs == {e \in execs : ~e.zombie}

RECURSIVE RetriesUpTo(_)
RetriesUpTo(r) == IF r < 0 THEN 0 ELSE retryCount[r] + RetriesUpTo(r - 1)

\* The handler executions the crawler has seen fail (each failure is a retry or
\* an abandoned request), with the one whose catch block is about to rethrow.
Faults ==
    RetriesUpTo(NumUrls)
    + Cardinality({r \in Reqs : reqState[r] = "failed"})
    + Cardinality({e \in ActiveExecs : e.pc = "capture"})
HandledCount == Cardinality({r \in Reqs : reqState[r] \in {"handled", "failed"}})

\* Array.from(new Set(arr)): the distinct values in first-occurrence order
RECURSIVE Distinct(_)
Distinct(arr) ==
    IF arr = <<>> THEN <<>>
    ELSE LET rest == Distinct(SubSeq(arr, 1, Len(arr) - 1))
             last == arr[Len(arr)]
         IN  IF \E i \in 1..Len(rest) : rest[i] = last THEN rest ELSE Append(rest, last)

\* the links collected with the shadow-tree and iframe links put first
linksDeepFirst ==
    IF "mainLinks" \in DOMAIN page THEN Distinct(page.deepLinks \o page.mainLinks)
    ELSE [i \in 1..numLinks |-> i]

\* const links = Array.from(new Set([...mainLinks, ...deepLinks])): the links
\* collected from the page, in order. Where the two lists are not followed,
\* the urls are numbered in the order of links.
links ==
    IF "mainLinks" \in DOMAIN page THEN Distinct(page.mainLinks \o page.deepLinks)
    ELSE [i \in 1..numLinks |-> i]

\* ---- the crawler (PlaywrightCrawler configured in main.ts)

\* a crawler that reclaims a failing request without counting its retries out
CrawlerOnErrorNoLimit(r) ==
    /\ reqState' = [reqState EXCEPT ![r] = "pending"]
    /\ retryCount' = [retryCount EXCEPT ![r] = @ + 1]
    /\ failedLog' = failedLog

\* A request whose handler threw or timed out: reclaimed for a retry, or, with
\* its retries used up, marked failed and handed to failedRequestHandler.
CrawlerOnError(r) ==
    IF retryCount[r] < MaxRetries
    THEN /\ reqState' = [reqState EXCEPT ![r] = "pending"]
         /\ retryCount' = [retryCount EXCEPT ![r] = @ + 1]
         /\ failedLog' = failedLog
    ELSE /\ reqState' = [reqState EXCEPT ![r] = "failed"]
         /\ retryCount' = retryCount
         /\ failedLog' = failedLog \cup {r}

\* The handler execution e ends by throwing. The crawler has already dealt
\* with the request of an execution it had timed out.
Throw(e) ==
    /\ execs' = execs \ {e}
    /\ IF e.zombie
       THEN UNCHANGED <<reqState, retryCount, failedLog>>
       ELSE CrawlerOnError(e.req)

\* The request queue after handler execution e returned normally.
Returned(rs, e) == IF e.zombie THEN rs ELSE [rs EXCEPT ![e.req] = "handled"]

\* The request queue after addRequests([{url: u}]): the queue keeps one
\* request per unique key.
Enqueued(rs, u) == IF rs[u] = "none" THEN [rs EXCEPT ![u] = "pending"] ELSE rs

\* The pool starts a pending request while it has a free slot.
StartRequest(r) ==
    /\ run = "running"
    /\ reqState[r] = "pending"
    /\ Cardinality(ActiveExecs) < maxConcurrency
    /\ HandledCount < maxRequestsPerCrawl
    /\ reqState' = [reqState EXCEPT ![r] = "running"]
    /\ execs' = execs \cup
          {[req |-> r, try |-> retryCount[r], pc |-> "nav", zombie |-> FALSE, idx |-> 0]}
    /\ UNCHANGED <<aux, input, resultsWanted, numLinks, seenUrls, collected, dataset,
                   retryCount, addCalls, kvStore, failedLog, run, summary,
                   markersSeen>>

\* The awaits at which a handler can reject: page operations and storage calls.
\* The marker wait is inside try/catch, and collected++ cannot throw.
ThrowPcs == {"nav", "scroll", "capture", "emptyCapture", "adding", "push"}

HandlerThrows(e) ==
    /\ e.pc \in ThrowPcs
    /\ e.zombie \/ e.pc = "capture" \/ Faults < MaxFaults
    /\ Throw(e)
    /\ UNCHANGED <<aux, input, resultsWanted, numLinks, seenUrls, collected, dataset,
                   addCalls, kvStore, run, summary, markersSeen>>

\* The awaits in which the handler waits for the page. The crawler closes the
\* page of a handler it has timed out, so the pending operation rejects: in
\* the LIST handler and in page.goto nothing catches it.
PagePcs == {"nav", "wait", "scroll", "capture", "emptyCapture"}

\* requestHandlerTimeoutSecs: 120 passes while the handler is suspended. The
\* crawler treats the request as failed and frees the slot. The handler is not
\* cancelled: suspended in a storage call (addRequests, pushData), its
\* promise goes on beside the retry.
HandlerTimeout(e) ==
    /\ ~e.zombie
    /\ e.pc = "capture" \/ Faults < MaxFaults
    /\ execs' = IF e.pc \in PagePcs
                THEN execs \ {e}
                ELSE (execs \ {e}) \cup {[e EXCEPT !.zombie = TRUE]}
    /\ CrawlerOnError(e.req)
    /\ UNCHANGED <<aux, input, resultsWanted, numLinks, seenUrls, collected, dataset,
                   addCalls, kvStore, run, summary, markersSeen>>

\* crawler.run resolves when nothing is pending or running (or the request cap
\* is reached); the summary is logged in the same turn.
CrawlerFinish ==
    /\ run = "running"
    /\ ActiveExecs = {}
    /\ \/ \A r \in Reqs : reqState[r] # "pending"
       \/ HandledCount >= maxRequestsPerCrawl
    /\ run' = "done"
    /\ summary' = collected
    /\ UNCHANGED <<aux, input, resultsWanted, numLinks, seenUrls, collected, dataset,
                   reqState, retryCount, execs, addCalls, kvStore, failedLog,
                   markersSeen>>

\* await Actor.exit(): the process ends, and with it every promise still alive.
ActorExit ==
    /\ run = "done"
    /\ run' = "exited"
    /\ execs' = {}
    /\ UNCHANGED <<aux, input, resultsWanted, numLinks, seenUrls, collected, dataset,
                   reqState, retryCount, addCalls, kvStore, failedLog, summary,
                   markersSeen>>

\* ---- the LIST handler

\* page.route .. page.goto .. cookie banner .. humanize
ListNavigate(e) ==
    /\ e.req = ListReq /\ e.pc = "nav"
    /\ execs' = (execs \ {e}) \cup {[e EXCEPT !.pc = "wait"]}
    /\ UNCHANGED <<aux, input, resultsWanted, numLinks, seenUrls, collected, dataset,
                   reqState, retryCount, addCalls, kvStore, failedLog, run, summary,
                   markersSeen>>

\* Promise.race of the two waitForSelector calls resolves
ListMarkersAppear(e) ==
    /\ e.req = ListReq /\ e.pc = "wait"
    /\ execs' = (execs \ {e}) \cup {[e EXCEPT !.pc = "scroll"]}
    /\ markersSeen' = TRUE
    /\ UNCHANGED <<aux, input, resultsWanted, numLinks, seenUrls, collected, dataset,
                   reqState, retryCount, addCalls, kvStore, failedLog, run, summary>>

\* ... or rejects after 60 s: the catch block starts the capture
ListMarkerTimeout(e) ==
    /\ e.req = ListReq /\ e.pc = "wait"
    /\ Faults < MaxFaults
    /\ execs' = (execs \ {e}) \cup {[e EXCEPT !.pc = "capture"]}
    /\ UNCHANGED <<aux, input, resultsWanted, numLinks, seenUrls, collected, dataset,
                   reqState, retryCount, addCalls, kvStore, failedLog, run, summary,
                   markersSeen>>

\* the keys the catch block writes before it rethrows
MarkerDebugKeys == {"LIST_HTML_DEBUG", "LIST_SCREENSHOT_DEBUG"}

\* the catch block as it would be without the screenshot
ListCaptureHtmlOnly(e) ==
    /\ e.req = ListReq /\ e.pc = "capture"
    /\ kvStore' = kvStore \cup {"LIST_HTML_DEBUG"}
    /\ Throw(e)
    /\ UNCHANGED <<aux, input, resultsWanted, numLinks, seenUrls, collected, dataset,
                   addCalls, run, summary, markersSeen>>

\* the capture completes and the catch block rethrows err
ListCaptureDone(e) ==
    /\ e.req = ListReq /\ e.pc = "capture"
    /\ kvStore' = kvStore \cup MarkerDebugKeys
    /\ Throw(e)
    /\ UNCHANGED <<aux, input, resultsWanted, numLinks, seenUrls, collected, dataset,
                   addCalls, run, summary, markersSeen>>

\* the loop without its seenUrls.has(url) test
NextUnseenNoTest(from) == IF from <= numLinks THEN from ELSE 0

\* for (const url of links): the first index from `from` on whose url is not in
\* seenUrls, 0 when there is none
NextUnseen(from) ==
    LET c == {i \in from..numLinks : links[i] \notin seenUrls}
    IN  IF c = {} THEN 0 ELSE CHOOSE i \in c : \A j \in c : i <= j

\* The synchronous stretch of the enqueue loop from index `from`: skip the urls
\* already in seenUrls, add the next one to seenUrls and suspend in
\* addRequests; with no url left, log and return. rs is the request queue as
\* this turn found it.
LoopStep(e, from, rs) ==
    LET n == NextUnseen(from)
    IN  IF n = 0
        THEN /\ execs' = execs \ {e}
             /\ reqState' = Returned(rs, e)
             /\ seenUrls' = seenUrls
        ELSE /\ execs' = (execs \ {e}) \cup {[e EXCEPT !.pc = "adding", !.idx = n]}
             /\ reqState' = rs
             /\ seenUrls' = seenUrls \cup {links[n]}

\* the scroll loop ends and the links are collected
ListCollect(e) ==
    /\ e.req = ListReq /\ e.pc = "scroll"
    /\ IF numLinks = 0
       THEN /\ execs' = (execs \ {e}) \cup {[e EXCEPT !.pc = "emptyCapture"]}
            /\ UNCHANGED <<reqState, seenUrls>>
       ELSE LoopStep(e, 1, reqState)
    /\ UNCHANGED <<aux, input, resultsWanted, numLinks, collected, dataset, retryCount,
                   addCalls, kvStore, failedLog, run, summary, markersSeen>>

EmptyDebugKeys == {"LIST_HTML_DEBUG_EMPTY", "LIST_SCREENSHOT_DEBUG_EMPTY"}

\* if (!links.length): the artifacts are saved, the loop has nothing to do
ListEmptyCaptureDone(e) ==
    /\ e.req = ListReq /\ e.pc = "emptyCapture"
    /\ kvStore' = kvStore \cup EmptyDebugKeys
    /\ execs' = execs \ {e}
    /\ reqState' = Returned(reqState, e)
    /\ UNCHANGED <<aux, input, resultsWanted, numLinks, seenUrls, collected, dataset,
                   retryCount, addCalls, failedLog, run, summary, markersSeen>>

\* the budget test with > in place of >=
BudgetMetStrict == Cardinality(seenUrls) > resultsWanted

\* if (seenUrls.size >= resultsWanted) break
BudgetMet == Cardinality(seenUrls) >= resultsWanted

\* addRequests resolves: enqueued++, the budget test, and the next iteration
ListAdded(e) ==
    /\ e.req = ListReq /\ e.pc = "adding"
    /\ addCalls' = [addCalls EXCEPT ![links[e.idx]] = @ + 1]
    /\ IF BudgetMet
       THEN /\ execs' = execs \ {e}
            /\ reqState' = Returned(Enqueued(reqState, links[e.idx]), e)
            /\ seenUrls' = seenUrls
       ELSE LoopStep(e, e.idx + 1, Enqueued(reqState, links[e.idx]))
    /\ UNCHANGED <<aux, input, resultsWanted, numLinks, collected, dataset, retryCount,
                   kvStore, failedLog, run, summary, markersSeen>>

\* ---- the DETAIL handler

\* page.goto, the extraction, item is built and Dataset.pushData(item) called
DetailExtract(e) ==
    /\ e.req \in Urls /\ e.pc = "nav"
    /\ execs' = (execs \ {e}) \cup {[e EXCEPT !.pc = "push"]}
    /\ UNCHANGED <<aux, input, resultsWanted, numLinks, seenUrls, collected, dataset,
                   reqState, retryCount, addCalls, kvStore, failedLog, run, summary,
                   markersSeen>>

\* the dataset stores the record (item.url is request.url)
DetailPush(e) ==
    /\ e.req \in Urls /\ e.pc = "push"
    /\ dataset' = [dataset EXCEPT ![e.req] = @ + 1]
    /\ execs' = (execs \ {e}) \cup {[e EXCEPT !.pc = "count"]}
    /\ UNCHANGED <<aux, input, resultsWanted, numLinks, seenUrls, collected, reqState,
                   retryCount, addCalls, kvStore, failedLog, run, summary,
                   markersSeen>>

\* the await resumes: collected++, log, return
DetailCount(e) ==
    /\ e.req \in Urls /\ e.pc = "count"
    /\ collected' = collected + 1
    /\ execs' = execs \ {e}
    /\ reqState' = Returned(reqState, e)
    /\ UNCHANGED <<aux, input, resultsWanted, numLinks, seenUrls, dataset, retryCount,
                   addCalls, kvStore, failedLog, run, summary, markersSeen>>

\* ---- the start-up: input, search URL, seeding (main.ts:21-27, 91-109, 493-496)

\* A string is a sequence of characters. An optional input field is a record
\* [given, value]; value is not read when given is FALSE.
Lower == {"a", "b", "c", "d", "e", "f", "g", "h", "i", "j", "k", "l", "m",
          "n", "o", "p", "q", "r", "s", "t", "u", "v", "w", "x", "y", "z"}
Digits == {"0", "1", "2", "3", "4", "5", "6", "7", "8", "9"}

\* the characters the inputs of the model are made of
InputChars == {"a", "-", "/", "L"}

StringsUpTo(n) == UNION {[1..k -> InputChars] : k \in 0..n}

Undefined == <<"u", "n", "d", "e", "f", "i", "n", "e", "d">>

\* the object used when Actor.getInput() returns null
DefaultInput ==
    [present |-> TRUE, given |-> TRUE, value |-> DefaultResults,
     keyword |-> [given |-> TRUE,
                  value |-> <<"A", "d", "m", "i", "n", "i", "s", "t", "r", "a", "t", "o", "r">>],
     location |-> [given |-> FALSE, value |-> <<>>],
     postedDate |-> "7d"]

\* [a-z0-9-]+
IsSlugPart(s) == Len(s) >= 1 /\ \A i \in 1..Len(s) : s[i] \in Lower \cup Digits \cup {"-"}

\* /^(?:[a-z0-9-]+)(?:\/[a-z0-9-]+)?$/.test(location)
looksSlug(s) ==
    \/ IsSlugPart(s)
    \/ \E k \in 2..(Len(s) - 1) :
          /\ s[k] = "/"
          /\ IsSlugPart(SubSeq(s, 1, k - 1))
          /\ IsSlugPart(SubSeq(s, k + 1, Len(s)))

\* the map with '24h' giving the hours, not the days
DayRangeOfHours(postedDate) ==
    CASE postedDate = "24h" -> <<"2", "4">>
      [] postedDate = "7d" -> <<"7">>
      [] postedDate = "30d" -> <<"3", "0">>
      [] OTHER -> <<>>

\* map[input.postedDate], the empty string when the key has no entry
DayRangeOf(postedDate) ==
    CASE postedDate = "24h" -> <<"1">>
      [] postedDate = "7d" -> <<"7">>
      [] postedDate = "30d" -> <<"3", "0">>
      [] OTHER -> <<>>

\* buildSearchUrl(): the URL as its parts. segment is what follows /search in
\* the path (empty when nothing does), params the URLSearchParams by name.
buildSearchUrl(in) ==
    LET query == IF in.keyword.given THEN in.keyword.value ELSE Undefined
        dayRange == IF in.postedDate \notin {"absent", "anytime"}
                    THEN DayRangeOf(in.postedDate) ELSE <<>>
        names == {"query"} \cup (IF dayRange # <<>> THEN {"day_range"} ELSE {})
        slug == in.location.given /\ in.location.value # <<>>
                    /\ looksSlug(in.location.value)
    IN  [built |-> TRUE,
         base |-> "https://jobs.workable.com/search",
         segment |-> IF slug THEN in.location.value ELSE <<>>,
         params |-> [n \in names |-> IF n = "query" THEN query ELSE dayRange]]

\* searchUrl before buildSearchUrl() has run
NoUrl == [built |-> FALSE, base |-> "", segment |-> <<>>, params |-> <<>>]

\* const input = (await Actor.getInput()) ?? { keyword: 'Administrator', ... }
GetInput ==
    /\ run = "start"
    /\ input' = IF input.present THEN input ELSE DefaultInput
    /\ run' = "init"
    /\ UNCHANGED <<resultsWanted, numLinks, seenUrls, collected, dataset, reqState,
                   retryCount, execs, addCalls, kvStore, failedLog, summary,
                   markersSeen, searchUrl, hasNextPage, clock, scroll, page, item>>

\* const searchUrl = buildSearchUrl()
BuildSearchUrl ==
    /\ run = "ready"
    /\ searchUrl' = buildSearchUrl(input)
    /\ run' = "built"
    /\ UNCHANGED <<input, resultsWanted, numLinks, seenUrls, collected, dataset,
                   reqState, retryCount, execs, addCalls, kvStore, failedLog,
                   summary, markersSeen, hasNextPage, clock, scroll, page, item>>

\* crawler.run([{ url: searchUrl, label: 'LIST' }]) seeds the request queue
CrawlerRun ==
    /\ run = "built"
    /\ reqState' = Enqueued(reqState, ListReq)
    /\ run' = "running"
    /\ UNCHANGED <<aux, input, resultsWanted, numLinks, seenUrls, collected, dataset,
                   retryCount, execs, addCalls, kvStore, failedLog, summary,
                   markersSeen>>

\* ---- the run

\* The state when crawler.run([{url: searchUrl, label: 'LIST'}]) is called.
Init ==
    /\ input \in {[DefaultInput EXCEPT !.value = v] : v \in 1..MaxWanted}
    /\ resultsWanted = ClampResults(input)
    /\ searchUrl = buildSearchUrl(input)
    /\ hasNextPage = FALSE
    /\ page = NoPage
    /\ item = NoItem
    /\ clock = 0
    /\ scroll = NoScroll
    /\ numLinks \in 0..NumUrls
    /\ seenUrls = {}
    /\ collected = 0
    /\ dataset = [u \in Urls |-> 0]
    /\ reqState = [r \in Reqs |-> IF r = ListReq THEN "pending" ELSE "none"]
    /\ retryCount = [r \in Reqs |-> 0]
    /\ execs = {}
    /\ addCalls = [u \in Urls |-> 0]
    /\ kvStore = {}
    /\ failedLog = {}
    /\ run = "running"
    /\ summary = -1
    /\ markersSeen = FALSE

Next ==
    \/ \E r \in Reqs : StartRequest(r)
    \/ \E e \in execs : HandlerThrows(e)
    \/ \E e \in execs : HandlerTimeout(e)
    \/ CrawlerFinish
    \/ ActorExit
    \/ \E e \in execs : ListNavigate(e)
    \/ \E e \in execs : ListMarkersAppear(e)
    \/ \E e \in execs : ListMarkerTimeout(e)
    \/ \E e \in execs : ListCaptureDone(e)
    \/ \E e \in execs : ListCollect(e)
    \/ \E e \in execs : ListEmptyCaptureDone(e)
    \/ \E e \in execs : ListAdded(e)
    \/ \E e \in execs : DetailExtract(e)
    \/ \E e \in execs : DetailPush(e)
    \/ \E e \in execs : DetailCount(e)

Spec == Init /\ [][Next]_vars
FairSpec == Spec /\ WF_vars(Next)

\* ---- the run over a listing page with or without a next-page link

InitPaged ==
    /\ input \in {[DefaultInput EXCEPT !.value = v] : v \in 1..MaxWanted}
    /\ resultsWanted = ClampResults(input)
    /\ searchUrl = buildSearchUrl(input)
    /\ hasNextPage \in BOOLEAN
    /\ page = NoPage
    /\ item = NoItem
    /\ clock = 0
    /\ scroll = NoScroll
    /\ numLinks \in 0..NumUrls
    /\ seenUrls = {}
    /\ collected = 0
    /\ dataset = [u \in Urls |-> 0]
    /\ reqState = [r \in Reqs |-> IF r = ListReq THEN "pending" ELSE "none"]
    /\ retryCount = [r \in Reqs |-> 0]
    /\ execs = {}
    /\ addCalls = [u \in Urls |-> 0]
    /\ kvStore = {}
    /\ failedLog = {}
    /\ run = "running"
    /\ summary = -1
    /\ markersSeen = FALSE

PagedSpec == InitPaged /\ [][Next]_vars

\* ---- reading the input (main.ts:21-27), for every input value

ClampInputs ==
    {[given |-> FALSE, value |-> 0]}
    \cup [given : {TRUE}, value : (MinResults - ClampSlack)..(MaxResults + ClampSlack)]

InitClamp ==
    /\ input \in ClampInputs
    /\ resultsWanted = 0
    /\ searchUrl = NoUrl
    /\ hasNextPage = FALSE
    /\ page = NoPage
    /\ item = NoItem
    /\ clock = 0
    /\ scroll = NoScroll
    /\ numLinks = 0
    /\ seenUrls = {}
    /\ collected = 0
    /\ dataset = [u \in Urls |-> 0]
    /\ reqState = [r \in Reqs |-> "none"]
    /\ retryCount = [r \in Reqs |-> 0]
    /\ execs = {}
    /\ addCalls = [u \in Urls |-> 0]
    /\ kvStore = {}
    /\ failedLog = {}
    /\ run = "init"
    /\ summary = -1
    /\ markersSeen = FALSE

\* const resultsWanted = Math.max(1, Math.min(500, input.resultsWanted ?? 50))
ReadInput ==
    /\ run = "init"
    /\ resultsWanted' = ClampResults(input)
    /\ run' = "ready"
    /\ UNCHANGED <<aux, input, numLinks, seenUrls, collected, dataset, reqState, retryCount,
                   execs, addCalls, kvStore, failedLog, summary, markersSeen>>

NextClamp == ReadInput

ClampSpec == InitClamp /\ [][NextClamp]_vars

\* ---- the start-up, for every input object

OptionalStrings(n) ==
    {[given |-> FALSE, value |-> <<>>]} \cup [given : {TRUE}, value : StringsUpTo(n)]

PostedDates == {"absent", "24h", "7d", "30d", "anytime"}

\* what Actor.getInput() returns: null (present is FALSE) or an object
StartInputs ==
    {[present |-> FALSE, given |-> FALSE, value |-> 0,
      keyword |-> [given |-> FALSE, value |-> <<>>],
      location |-> [given |-> FALSE, value |-> <<>>],
      postedDate |-> "absent"]}
    \cup [present : {TRUE}, given : {TRUE}, value : 1..MaxWanted,
          keyword : OptionalStrings(MaxKeywordLen),
          location : OptionalStrings(MaxLocLen),
          postedDate : PostedDates]

InitStart ==
    /\ input \in StartInputs
    /\ resultsWanted = 0
    /\ searchUrl = NoUrl
    /\ hasNextPage = FALSE
    /\ page = NoPage
    /\ item = NoItem
    /\ clock = 0
    /\ scroll = NoScroll
    /\ numLinks = 0
    /\ seenUrls = {}
    /\ collected = 0
    /\ dataset = [u \in Urls |-> 0]
    /\ reqState = [r \in Reqs |-> "none"]
    /\ retryCount = [r \in Reqs |-> 0]
    /\ execs = {}
    /\ addCalls = [u \in Urls |-> 0]
    /\ kvStore = {}
    /\ failedLog = {}
    /\ run = "start"
    /\ summary = -1
    /\ markersSeen = FALSE

\* from Actor.getInput() to the first page visit of the seeded request
NextStart ==
    \/ GetInput
    \/ ReadInput
    \/ BuildSearchUrl
    \/ CrawlerRun
    \/ \E r \in Reqs : StartRequest(r)
    \/ \E e \in execs : ListNavigate(e)

StartSpec == InitStart /\ [][NextStart]_vars

\* ---- the SEARCH/JOB variant (src/unnamed/part_005, main())
\*
\* One handlePageFunction serves two labels. Request 1 - p is the search page
\* p (label SEARCH), request u in Urls the job page u (label JOB). Search page
\* p shows numLinks job anchors, the next numLinks urls not shown before it.
\* The model follows the runs in which no page operation fails.

SearchReq(p) == 1 - p
SearchPages == 1..MaxPages
VariantReqs == {SearchReq(p) : p \in SearchPages} \cup Urls

\* const maxResults = input.resultsWanted
maxResults == input.value

\* jobAnchors on search page p, as the urls they point to
jobAnchors(p) ==
    LET first == (p - 1) * numLinks
        n == IF first + numLinks <= NumUrls THEN numLinks
             ELSE IF first < NumUrls THEN NumUrls - first ELSE 0
    IN  [i \in 1..n |-> first + i]

PageOf(r) == 1 - r

\* the pool starts a queued request while fewer than 5 handlers run
VariantStart(r) ==
    /\ run = "running"
    /\ reqState[r] = "pending"
    /\ Cardinality(execs) < variantConcurrency
    /\ reqState' = [reqState EXCEPT ![r] = "running"]
    /\ execs' = execs \cup
          {[req |-> r, try |-> 0, pc |-> IF r \in Urls THEN "extract" ELSE "loop",
            zombie |-> FALSE, idx |-> 1]}
    /\ UNCHANGED <<aux, input, resultsWanted, numLinks, seenUrls, collected, dataset,
                   retryCount, addCalls, kvStore, failedLog, run, summary,
                   markersSeen>>

\* for (const anchor of jobAnchors): the awaits that read the anchor, then
\* `if (collected >= maxResults) break;` and the call of addRequest
SearchLoop(e) ==
    /\ e.req \notin Urls /\ e.pc = "loop"
    /\ execs' = (execs \ {e}) \cup
          {IF e.idx > Len(jobAnchors(PageOf(e.req))) \/ collected >= maxResults
           THEN [e EXCEPT !.pc = "next"]
           ELSE [e EXCEPT !.pc = "adding"]}
    /\ UNCHANGED <<aux, input, resultsWanted, numLinks, seenUrls, collected, dataset,
                   reqState, retryCount, addCalls, kvStore, failedLog, run, summary,
                   markersSeen>>

\* requestQueue.addRequest({ url: absolute, userData: { label: 'JOB' } }) resolves
SearchAdded(e) ==
    /\ e.req \notin Urls /\ e.pc = "adding"
    /\ LET u == jobAnchors(PageOf(e.req))[e.idx]
       IN  /\ reqState' = Enqueued(reqState, u)
           /\ addCalls' = [addCalls EXCEPT ![u] = @ + 1]
    /\ execs' = (execs \ {e}) \cup {[e EXCEPT !.pc = "loop", !.idx = @ + 1]}
    /\ UNCHANGED <<aux, input, resultsWanted, numLinks, seenUrls, collected, dataset,
                   retryCount, kvStore, failedLog, run, summary, markersSeen>>

\* if (collected < maxResults) { if (nextPage <= 50) addRequest(next SEARCH) }
SearchNextPage(e) ==
    /\ e.req \notin Urls /\ e.pc = "next"
    /\ LET nextPage == PageOf(e.req) + 1
       IN  reqState' =
             IF collected < maxResults /\ nextPage <= PageLimit /\ nextPage <= MaxPages
             THEN [Enqueued(reqState, SearchReq(nextPage)) EXCEPT ![e.req] = "handled"]
             ELSE [reqState EXCEPT ![e.req] = "handled"]
    /\ execs' = execs \ {e}
    /\ UNCHANGED <<aux, input, resultsWanted, numLinks, seenUrls, collected, dataset,
                   retryCount, addCalls, kvStore, failedLog, run, summary,
                   markersSeen>>

\* the JOB branch: the fields are read, item is built, dataset.pushData(item) called
JobExtract(e) ==
    /\ e.req \in Urls /\ e.pc = "extract"
    /\ execs' = (execs \ {e}) \cup {[e EXCEPT !.pc = "push"]}
    /\ UNCHANGED <<aux, input, resultsWanted, numLinks, seenUrls, collected, dataset,
                   reqState, retryCount, addCalls, kvStore, failedLog, run, summary,
                   markersSeen>>

\* the dataset stores the record
JobPush(e) ==
    /\ e.req \in Urls /\ e.pc = "push"
    /\ dataset' = [dataset EXCEPT ![e.req] = @ + 1]
    /\ execs' = (execs \ {e}) \cup {[e EXCEPT !.pc = "count"]}
    /\ UNCHANGED <<aux, input, resultsWanted, numLinks, seenUrls, collected, reqState,
                   retryCount, addCalls, kvStore, failedLog, run, summary,
                   markersSeen>>

\* collected += 1; at maxResults `crawler?.autoscaledPool?.autoscaledPool?.close?.()`
\* is evaluated: the pool has no property autoscaledPool, so the optional
\* chain yields undefined and nothing is closed.
JobCount(e) ==
    /\ e.req \in Urls /\ e.pc = "count"
    /\ collected' = collected + 1
    /\ execs' = execs \ {e}
    /\ reqState' = [reqState EXCEPT ![e.req] = "handled"]
    /\ UNCHANGED <<aux, input, resultsWanted, numLinks, seenUrls, dataset, retryCount,
                   addCalls, kvStore, failedLog, run, summary, markersSeen>>

\* crawler.run() resolves when the queue is drained
VariantFinish ==
    /\ run = "running"
    /\ execs = {}
    /\ \A r \in VariantReqs : reqState[r] # "pending"
    /\ run' = "done"
    /\ summary' = collected
    /\ UNCHANGED <<aux, input, resultsWanted, numLinks, seenUrls, collected, dataset,
                   reqState, retryCount, execs, addCalls, kvStore, failedLog,
                   markersSeen>>

\* after the input check and the seeding of search page 1 (part_005:50-64)
InitVariant ==
    /\ input \in {[DefaultInput EXCEPT !.value = v] : v \in 1..MaxWanted}
    /\ resultsWanted = 0
    /\ searchUrl = NoUrl
    /\ hasNextPage = FALSE
    /\ page = NoPage
    /\ item = NoItem
    /\ clock = 0
    /\ scroll = NoScroll
    /\ numLinks \in 0..NumUrls
    /\ seenUrls = {}
    /\ collected = 0
    /\ dataset = [u \in Urls |-> 0]
    /\ reqState = [r \in VariantReqs |-> IF r = SearchReq(1) THEN "pending" ELSE "none"]
    /\ retryCount = [r \in VariantReqs |-> 0]
    /\ execs = {}
    /\ addCalls = [u \in Urls |-> 0]
    /\ kvStore = {}
    /\ failedLog = {}
    /\ run = "running"
    /\ summary = -1
    /\ markersSeen = FALSE

NextVariant ==
    \/ \E r \in VariantReqs : VariantStart(r)
    \/ \E e \in execs : SearchLoop(e)
    \/ \E e \in execs : SearchAdded(e)
    \/ \E e \in execs : SearchNextPage(e)
    \/ \E e \in execs : JobExtract(e)
    \/ \E e \in execs : JobPush(e)
    \/ \E e \in execs : JobCount(e)
    \/ VariantFinish

VariantSpec == InitVariant /\ [][NextVariant]_vars
FairVariantSpec == VariantSpec /\ WF_vars(NextVariant)

\* ---- the extraction of the DETAIL handler (main.ts:127-235, 398-465)
\*
\* A value that may be null or undefined is a record [given, value]. A string
\* is a sequence of characters or of longer pieces of text.

Absent == [given |-> FALSE, value |-> <<>>]
Some(s) == [given |-> TRUE, value |-> s]

\* a ?? b
Coalesce(a, b) == IF a.given THEN a ELSE b

\* Boolean(a) for a string that may be undefined
Truthy(a) == a.given /\ a.value # <<>>

RECURSIVE TrimLeft(_)
TrimLeft(s) == IF s # <<>> /\ Head(s) = " " THEN TrimLeft(Tail(s)) ELSE s

RECURSIVE TrimRight(_)
TrimRight(s) ==
    IF s # <<>> /\ s[Len(s)] = " " THEN TrimRight(SubSeq(s, 1, Len(s) - 1)) ELSE s

\* String.prototype.trim
trim(s) == TrimRight(TrimLeft(s))

\* arr.join(', ')
RECURSIVE join(_)
join(arr) ==
    IF arr = <<>> THEN <<>>
    ELSE IF Len(arr) = 1 THEN arr[1]
    ELSE arr[1] \o <<", ">> \o join(Tail(arr))

\* arr.filter(Boolean) on strings that may be undefined
RECURSIVE FilterTruthy(_)
FilterTruthy(arr) ==
    IF arr = <<>> THEN <<>>
    ELSE IF Truthy(Head(arr)) THEN <<Head(arr).value>> \o FilterTruthy(Tail(arr))
    ELSE FilterTruthy(Tail(arr))

\* a normalization that joins the list as it is: et.join(', ')
normalizeEmploymentTypeNoSet(et) ==
    IF et.kind = "absent" \/ (et.kind = "string" /\ et.str = <<>>) THEN Absent
    ELSE IF et.kind = "array" THEN Some(join(et.arr))
    ELSE Some(et.str)

\* normalizeEmploymentType(et): et is absent, a string or an array of strings
normalizeEmploymentType(et) ==
    IF et.kind = "absent" \/ (et.kind = "string" /\ et.str = <<>>) THEN Absent
    ELSE IF et.kind = "array" THEN Some(join(Distinct(et.arr)))
    ELSE Some(et.str)

\* extractLocationFromLD(job); jobLocation.value holds addressLocality,
\* addressRegion, addressCountry of the first location
extractLocationFromLD(ld) ==
    IF ~ld.present \/ ~ld.jobLocation.given THEN Absent
    ELSE LET parts == FilterTruthy(ld.jobLocation.value)
         IN  IF parts # <<>> THEN Some(join(parts)) ELSE Absent

\* extractCompanyFromLD(job): org?.name || null
extractCompanyFromLD(ld) ==
    IF ld.present /\ Truthy(ld.company) THEN ld.company ELSE Absent

\* getInnerHTMLDeep(page, ['[data-ui="job-description"]', '[data-ui="description"]',
\* 'article']): the innerHTML of the element the first matching selector finds
getInnerHTMLDeep(pg) ==
    IF pg.descEl.given THEN pg.descEl.value
    ELSE IF pg.article.given THEN pg.article.value
    ELSE <<>>

\* a vocabulary without the apprenticeship token
tokensWithoutApprenticeship ==
    <<"Full-time", "Part-time", "Contract", "Temporary", "Internship", "Freelance">>

tokens == <<"Full-time", "Part-time", "Contract", "Temporary", "Internship",
            "Apprenticeship", "Freelance">>

\* the lower-case texts that new RegExp(`\\b${t.replace('-', '[- ]?')}\\b`, 'i') matches
TokenForms(t) ==
    CASE t = "Full-time" -> {"full-time", "full time", "fulltime"}
      [] t = "Part-time" -> {"part-time", "part time", "parttime"}
      [] t = "Contract" -> {"contract"}
      [] t = "Temporary" -> {"temporary"}
      [] t = "Internship" -> {"internship"}
      [] t = "Apprenticeship" -> {"apprenticeship"}
      [] t = "Freelance" -> {"freelance"}

\* the words a page body of the model is made of, in lower case
LowerCase(w) ==
    CASE w = "Contract" -> "contract"
      [] w = "FULL TIME" -> "full time"
      [] OTHER -> w

RECURSIVE FoundFrom(_, _)
FoundFrom(i, text) ==
    IF i > Len(tokens) THEN <<>>
    ELSE (IF \E k \in 1..Len(text) : LowerCase(text[k]) \in TokenForms(tokens[i])
          THEN <<(<<tokens[i]>>)>> ELSE <<>>) \o FoundFrom(i + 1, text)

\* guessEmploymentTypeFromDOM(page)
guessEmploymentTypeFromDOM(pg) ==
    LET found == FoundFrom(1, pg.bodyText)
    IN  IF found # <<>> THEN Some(join(Distinct(found))) ELSE Absent

\* (await locator.first().textContent().catch(() => ''))?.trim(): the text of
\* the element, '' when no element is found before the wait gives up
TextContentTrimmed(el) == Some(trim(IF el.given THEN el.value ELSE <<>>))

Upper == {"A", "B", "C", "D", "E", "F", "G", "H", "I", "J", "K", "L", "M",
          "N", "O", "P", "Q", "R", "S", "T", "U", "V", "W", "X", "Y", "Z"}

\* /<\w+/.test(s)
HasTag(s) ==
    \E i \in 1..(Len(s) - 1) :
        s[i] = "<" /\ s[i + 1] \in Lower \cup Upper \cup Digits \cup {"_"}

LdField(pg, f) == IF pg.ld.present THEN pg.ld[f] ELSE Absent

\* const title = ld?.title ?? (...)?.trim() ?? ''
ItemTitle(pg) == Coalesce(LdField(pg, "title"), TextContentTrimmed(pg.h1))

\* let company = extractCompanyFromLD(ld) ?? (...)?.trim() ?? ''
ItemCompany(pg) == Coalesce(extractCompanyFromLD(pg.ld), TextContentTrimmed(pg.companyEl))

\* let locationText = extractLocationFromLD(ld) ?? (...)?.trim() ?? ''
ItemLocation(pg) == Coalesce(extractLocationFromLD(pg.ld), TextContentTrimmed(pg.locationEl))

\* normalizeEmploymentType(ld?.employmentType ?? null) ?? (await guessEmploymentTypeFromDOM(page))
ItemEmploymentType(pg) ==
    Coalesce(normalizeEmploymentType(IF pg.ld.present THEN pg.ld.employmentType
                                     ELSE [kind |-> "absent", str |-> <<>>, arr |-> <<>>]),
             guessEmploymentTypeFromDOM(pg))

\* descriptionHtml: the structured description if it has a tag, else the
\* innerHTML found in the page, else the article text wrapped in <p>
ItemDescriptionHtml(pg) ==
    IF Truthy(LdField(pg, "description")) /\ HasTag(pg.ld.description.value)
    THEN Some(pg.ld.description.value)
    ELSE LET inner == getInnerHTMLDeep(pg)
         IN  IF inner # <<>> THEN Some(inner)
             ELSE Some(<<"<", "p", ">">> \o TextContentTrimmed(pg.article).value
                        \o <<"<", "/", "p", ">">>)

\* an item whose datePosted falls back to the time of the extraction
ItemDatedByClock(pg, now) ==
    [built |-> TRUE,
     title |-> ItemTitle(pg),
     company |-> ItemCompany(pg),
     location |-> ItemLocation(pg),
     datePosted |-> Coalesce(LdField(pg, "datePosted"), Some(<<now>>)),
     employmentType |-> ItemEmploymentType(pg),
     descriptionHtml |-> ItemDescriptionHtml(pg),
     scrapedAt |-> now]

\* const item = { url, title, company, location, datePosted, employmentType, ... }
Item(pg, now) ==
    [built |-> TRUE,
     title |-> ItemTitle(pg),
     company |-> ItemCompany(pg),
     location |-> ItemLocation(pg),
     datePosted |-> LdField(pg, "datePosted"),
     employmentType |-> ItemEmploymentType(pg),
     descriptionHtml |-> ItemDescriptionHtml(pg),
     scrapedAt |-> now]

\* the structured blocks of the model
LdBlocks ==
    [present : {TRUE},
     title : {Absent, Some(<<>>), Some(<<"x">>), Some(<<" ", "x">>)},
     company : {Absent, Some(<<>>), Some(<<"c">>)},
     jobLocation : {Absent,
                    Some(<<Absent, Absent, Absent>>),
                    Some(<<Some(<<"t">>), Absent, Some(<<"k">>)>>),
                    Some(<<Some(<<>>), Absent, Some(<<"k">>)>>)},
     employmentType : {[kind |-> "absent", str |-> <<>>, arr |-> <<>>],
                       [kind |-> "string", str |-> <<>>, arr |-> <<>>],
                       [kind |-> "string", str |-> <<"F">>, arr |-> <<>>],
                       [kind |-> "array", str |-> <<>>, arr |-> <<>>],
                       [kind |-> "array", str |-> <<>>, arr |-> <<(<<"F">>), (<<"F">>)>>],
                       [kind |-> "array", str |-> <<>>, arr |-> <<(<<"F">>), (<<"P">>)>>]},
     description : {Absent, Some(<<>>), Some(<<"x">>), Some(<<"<", "b", ">", "x">>)},
     datePosted : {Some(<<"d">>)}]

\* parseJobPostingJSONLD found no job posting
NoLd == [present |-> FALSE]

\* the detail pages of the model
Pages ==
    [loaded : {TRUE},
     ld : LdBlocks \cup {NoLd},
     h1 : {Absent, Some(<<>>), Some(<<" ", "y", " ">>)},
     companyEl : {Absent, Some(<<"y">>)},
     locationEl : {Absent, Some(<<"y">>)},
     descEl : {Absent, Some(<<>>), Some(<<"<", "i", ">", "y">>)},
     article : {Absent, Some(<<"y">>)},
     bodyText : {<<>>, <<"Contract">>, <<"FULL TIME", "contractor">>,
                 <<"apprenticeship", "Contract">>}]

InitExtract ==
    /\ page \in Pages
    /\ item = NoItem
    /\ clock = 0
    /\ scroll = NoScroll
    /\ input = DefaultInput
    /\ resultsWanted = ClampResults(input)
    /\ searchUrl = buildSearchUrl(input)
    /\ hasNextPage = FALSE
    /\ numLinks = 1
    /\ seenUrls = {1}
    /\ collected = 0
    /\ dataset = [u \in Urls |-> 0]
    /\ reqState = [r \in Reqs |-> IF r = ListReq THEN "handled"
                                  ELSE IF r = 1 THEN "running" ELSE "none"]
    /\ retryCount = [r \in Reqs |-> 0]
    /\ execs = {[req |-> 1, try |-> 0, pc |-> "nav", zombie |-> FALSE, idx |-> 0]}
    /\ addCalls = [u \in Urls |-> IF u = 1 THEN 1 ELSE 0]
    /\ kvStore = {}
    /\ failedLog = {}
    /\ run = "running"
    /\ summary = -1
    /\ markersSeen = TRUE

\* requestHandlerTimeoutSecs: 120
requestHandlerTimeoutSecs == 120

\* locator.first().textContent() is called without a timeout option: it waits
\* for a matching element for the default action timeout of Playwright (30 s,
\* the image of the actor is playwright 1.54.1) and then rejects
locatorTimeoutSecs == 30

\* the wait of locator.first().textContent() for the element el
LocatorWait(el) == IF el.given THEN 0 ELSE locatorTimeoutSecs

\* The seconds the extraction spends waiting for elements that are not in the
\* page. The right operand of ?? is awaited only when the left one is null
\* or undefined; the article text only when neither the structured
\* description nor getInnerHTMLDeep gave the description.
WaitSecs(pg) ==
    (IF LdField(pg, "title").given THEN 0 ELSE LocatorWait(pg.h1))
    + (IF extractCompanyFromLD(pg.ld).given THEN 0 ELSE LocatorWait(pg.companyEl))
    + (IF extractLocationFromLD(pg.ld).given THEN 0 ELSE LocatorWait(pg.locationEl))
    + (IF (Truthy(LdField(pg, "description")) /\ HasTag(pg.ld.description.value))
          \/ getInnerHTMLDeep(pg) # <<>>
       THEN 0 ELSE LocatorWait(pg.article))

\* The handler is still in its waits when requestHandlerTimeoutSecs have
\* passed: page.route, page.goto and the network-idle wait (main.ts:370-395)
\* have taken their time before the first wait begins.
ExceedsHandlerTimeout(pg) == WaitSecs(pg) >= requestHandlerTimeoutSecs

\* the DETAIL handler from page.goto to the item (main.ts:394-465)
BuildItem(e) ==
    /\ e.req \in Urls /\ e.pc = "nav"
    /\ ~ExceedsHandlerTimeout(page)
    /\ item' = Item(page, clock)
    /\ execs' = (execs \ {e}) \cup {[e EXCEPT !.pc = "push"]}
    /\ UNCHANGED <<input, resultsWanted, numLinks, seenUrls, collected, dataset,
                   reqState, retryCount, addCalls, kvStore, failedLog, run, summary,
                   markersSeen, searchUrl, hasNextPage, clock, scroll, page>>

\* The handler is timed out in the waits of the extraction: the crawler
\* reclaims the request and closes the page. The pending textContent rejects
\* into its .catch(() => ''), so the handler is not ended: it builds the item
\* and goes on to Dataset.pushData beside the retry.
ExtractTimeout(e) ==
    /\ e.req \in Urls /\ e.pc = "nav" /\ ~e.zombie
    /\ ExceedsHandlerTimeout(page)
    /\ item' = Item(page, clock)
    /\ execs' = (execs \ {e}) \cup {[e EXCEPT !.pc = "push", !.zombie = TRUE]}
    /\ CrawlerOnError(e.req)
    /\ UNCHANGED <<input, resultsWanted, numLinks, seenUrls, collected, dataset,
                   addCalls, kvStore, run, summary, markersSeen, searchUrl,
                   hasNextPage, clock, scroll, page>>

NextExtract ==
    \/ \E r \in Reqs : StartRequest(r)
    \/ \E e \in execs : BuildItem(e)
    \/ \E e \in execs : ExtractTimeout(e)
    \/ \E e \in execs : DetailPush(e)
    \/ \E e \in execs : DetailCount(e)

ExtractSpec == InitExtract /\ [][NextExtract]_vars

\* ---- parseJobPostingJSONLD (main.ts:127-147), for every sequence of blocks
\*
\* A block is the text of one script[type="application/ld+json"] element: text
\* JSON.parse rejects, the JSON value null, one object or an array of objects.
\* An object is [type, title, main]: its '@type', whether it has a truthy
\* title, and the '@type' of its mainEntityOfPage ("none" without one).

MaxBlobs == 2
MaxElems == 2

LdTypes == {"JobPosting", "WebPage"}

LdObjects == [type : LdTypes, title : BOOLEAN, main : LdTypes \cup {"none"}]

\* obj.mainEntityOfPage, for an object that has one
mainEntityOfPage(o) == [type |-> o.main, title |-> FALSE, main |-> "none"]

SeqsUpTo(S, n) == UNION {[1..k -> S] : k \in 0..n}

Blobs ==
    [kind : {"malformed", "null"}, objs : {<<>>}]
    \cup [kind : {"object"}, objs : [1..1 -> LdObjects]]
    \cup [kind : {"array"}, objs : SeqsUpTo(LdObjects, MaxElems)]

NoPick == [found |-> FALSE]
Picked(o) == [found |-> TRUE, obj |-> o]

\* obj.find(pred) with the predicate of pick
RECURSIVE FindFrom(_, _)
FindFrom(objs, i) ==
    IF i > Len(objs) THEN NoPick
    ELSE IF objs[i].type = "JobPosting" \/ objs[i].title THEN Picked(objs[i])
    ELSE FindFrom(objs, i + 1)

\* obj.find(pred) with a predicate that looks at '@type' only
RECURSIVE FindTypedFrom(_, _)
FindTypedFrom(objs, i) ==
    IF i > Len(objs) THEN NoPick
    ELSE IF objs[i].type = "JobPosting" THEN Picked(objs[i])
    ELSE FindTypedFrom(objs, i + 1)

\* try { const parsed = JSON.parse(blob); ... pick(parsed) } catch {}
pick(blob) ==
    IF blob.kind \in {"malformed", "null"} THEN NoPick
    ELSE IF blob.kind = "array" THEN FindFrom(blob.objs, 1)
    ELSE IF blob.objs[1].type = "JobPosting" THEN Picked(blob.objs[1])
    ELSE IF blob.objs[1].main = "JobPosting" THEN Picked(mainEntityOfPage(blob.objs[1]))
    ELSE NoPick

\* for (const blob of blobs) { ... if (jp) return jp } return null
RECURSIVE ParseFrom(_, _)
ParseFrom(blobs, i) ==
    IF i > Len(blobs) THEN NoPick
    ELSE IF pick(blobs[i]).found THEN pick(blobs[i])
    ELSE ParseFrom(blobs, i + 1)

parseJobPostingJSONLD(pg) == ParseFrom(pg.blobs, 1)

InitParse ==
    /\ page \in [loaded : {TRUE}, blobs : SeqsUpTo(Blobs, MaxBlobs)]
    /\ item = NoItem
    /\ clock = 0
    /\ scroll = NoScroll
    /\ input = DefaultInput
    /\ resultsWanted = ClampResults(input)
    /\ searchUrl = buildSearchUrl(input)
    /\ hasNextPage = FALSE
    /\ numLinks = 1
    /\ seenUrls = {1}
    /\ collected = 0
    /\ dataset = [u \in Urls |-> 0]
    /\ reqState = [r \in Reqs |-> IF r = ListReq THEN "handled"
                                  ELSE IF r = 1 THEN "running" ELSE "none"]
    /\ retryCount = [r \in Reqs |-> 0]
    /\ execs = {[req |-> 1, try |-> 0, pc |-> "nav", zombie |-> FALSE, idx |-> 0]}
    /\ addCalls = [u \in Urls |-> IF u = 1 THEN 1 ELSE 0]
    /\ kvStore = {}
    /\ failedLog = {}
    /\ run = "running"
    /\ summary = -1
    /\ markersSeen = TRUE

\* const ld = await parseJobPostingJSONLD(page)
ParseLd(e) ==
    /\ e.req \in Urls /\ e.pc = "nav"
    /\ ~item.built
    /\ item' = [built |-> TRUE, ld |-> parseJobPostingJSONLD(page)]
    /\ UNCHANGED <<input, resultsWanted, numLinks, seenUrls, collected, dataset,
                   reqState, retryCount, execs, addCalls, kvStore, failedLog, run,
                   summary, markersSeen, searchUrl, hasNextPage, clock, scroll, page>>

NextParse == \E e \in execs : ParseLd(e)

ParseSpec == InitParse /\ [][NextParse]_vars

\* ---- two DETAIL requests whose pages have the same content, extracted at
\* ---- different times (main.ts:366-470)

MaxClock == 1

\* time passes
Tick ==
    /\ clock < MaxClock
    /\ clock' = clock + 1
    /\ UNCHANGED <<input, resultsWanted, numLinks, seenUrls, collected, dataset,
                   reqState, retryCount, execs, addCalls, kvStore, failedLog, run,
                   summary, markersSeen, searchUrl, hasNextPage, scroll, page, item>>

\* the structured blocks of the repeated pages: none, or one with a title, a
\* location, a plain description and any employmentType
RepeatLds ==
    {NoLd} \cup
    {b \in LdBlocks : /\ b.title = Some(<<"x">>)
                      /\ b.company = Absent
                      /\ b.jobLocation = Some(<<Some(<<"t">>), Absent, Some(<<"k">>)>>)
                      /\ b.description = Some(<<"x">>)}

InitRepeat ==
    /\ page \in {pg \in Pages : pg.ld \in RepeatLds}
    /\ item = NoItem
    /\ clock = 0
    /\ scroll = NoScroll
    /\ input = DefaultInput
    /\ resultsWanted = ClampResults(input)
    /\ searchUrl = buildSearchUrl(input)
    /\ hasNextPage = FALSE
    /\ numLinks = 2
    /\ seenUrls = {1, 2}
    /\ collected = 0
    /\ dataset = [u \in Urls |-> 0]
    /\ reqState = [r \in Reqs |-> IF r = ListReq THEN "handled"
                                  ELSE IF r = 1 THEN "running"
                                  ELSE IF r = 2 THEN "pending" ELSE "none"]
    /\ retryCount = [r \in Reqs |-> 0]
    /\ execs = {[req |-> 1, try |-> 0, pc |-> "nav", zombie |-> FALSE, idx |-> 0]}
    /\ addCalls = [u \in Urls |-> IF u \in {1, 2} THEN 1 ELSE 0]
    /\ kvStore = {}
    /\ failedLog = {}
    /\ run = "running"
    /\ summary = -1
    /\ markersSeen = TRUE

NextRepeat ==
    \/ Tick
    \/ \E r \in Reqs : StartRequest(r)
    \/ \E e \in execs : BuildItem(e)
    \/ \E e \in execs : ExtractTimeout(e)
    \/ \E e \in execs : DetailPush(e)
    \/ \E e \in execs : DetailCount(e)

RepeatSpec == InitRepeat /\ [][NextRepeat]_vars

\* ---- the scroll loop of the LIST handler (main.ts:321-336), for every
\* ---- sequence of counts the page shows

MaxSeen == 2

\* for (let i = 0; i < 40; i++)
ScrollPasses == 40

\* a loop that stops once the count covers what is left of the target
ScrollStopRemaining(seen) ==
    \/ seen >= resultsWanted - Cardinality({u \in Urls : reqState[u] # "none"})
    \/ seen = scroll.lastSeen

\* if (seen >= resultsWanted || seen === lastSeen) break
ScrollStop(seen) == seen >= resultsWanted \/ seen = scroll.lastSeen

\* One pass: scroll, sleep, count the cards and links (seen), then break or
\* lastSeen = seen and i++.
ScrollPass(e) ==
    /\ e.req = ListReq /\ e.pc = "scroll"
    /\ ~scroll.done
    /\ \E seen \in 0..MaxSeen :
         scroll' = [i |-> IF ScrollStop(seen) THEN scroll.i ELSE scroll.i + 1,
                    lastSeen |-> IF ScrollStop(seen) THEN scroll.lastSeen ELSE seen,
                    seen |-> seen,
                    prev |-> scroll.lastSeen,
                    passes |-> scroll.passes + 1,
                    done |-> ScrollStop(seen) \/ scroll.i + 1 >= ScrollPasses]
    /\ UNCHANGED <<input, resultsWanted, numLinks, seenUrls, collected, dataset,
                   reqState, retryCount, execs, addCalls, kvStore, failedLog, run,
                   summary, markersSeen, searchUrl, hasNextPage, clock, page, item>>

\* The LIST handler about to scroll: on the first attempt nothing is enqueued;
\* on a retry after addRequests threw, the first k links are in seenUrls.
InitScroll ==
    /\ input \in {[DefaultInput EXCEPT !.value = v] : v \in 1..MaxWanted}
    /\ resultsWanted = ClampResults(input)
    /\ searchUrl = buildSearchUrl(input)
    /\ hasNextPage = FALSE
    /\ page = NoPage
    /\ item = NoItem
    /\ clock = 0
    /\ scroll = NoScroll
    /\ numLinks \in 1..NumUrls
    /\ \E k \in 0..Min(resultsWanted, numLinks) :
         /\ seenUrls = 1..k
         /\ retryCount = [r \in Reqs |-> IF r = ListReq /\ k > 0 THEN 1 ELSE 0]
         /\ addCalls = [u \in Urls |-> IF u < k THEN 1 ELSE 0]
         /\ reqState = [r \in Reqs |-> IF r = ListReq THEN "running"
                                       ELSE IF r < k THEN "pending" ELSE "none"]
         /\ execs = {[req |-> ListReq, try |-> IF k > 0 THEN 1 ELSE 0, pc |-> "scroll",
                      zombie |-> FALSE, idx |-> 0]}
    /\ collected = 0
    /\ dataset = [u \in Urls |-> 0]
    /\ kvStore = {}
    /\ failedLog = {}
    /\ run = "running"
    /\ summary = -1
    /\ markersSeen = TRUE

NextScroll ==
    \/ \E e \in execs : ScrollPass(e)
    \/ \E e \in execs : scroll.done /\ ListCollect(e)
    \/ \E e \in execs : ListAdded(e)

ScrollSpec == InitScroll /\ [][NextScroll]_vars

\* ---- the link collection and the enqueue loop of the LIST handler
\* ---- (main.ts:338-363), for every pair of link lists

MaxLinkList == 2

\* the lists page.$$eval and collectViewLinksDeep return: both are built
\* through a Set, so neither repeats a url
LinkLists ==
    {l \in SeqsUpTo(Urls, MaxLinkList) : \A i, j \in 1..Len(l) : l[i] = l[j] => i = j}

InitOrder ==
    /\ page \in [loaded : {TRUE}, mainLinks : LinkLists, deepLinks : LinkLists]
    /\ numLinks = Len(Distinct(page.mainLinks \o page.deepLinks))
    /\ input \in {[DefaultInput EXCEPT !.value = v] : v \in 1..MaxWanted}
    /\ resultsWanted = ClampResults(input)
    /\ searchUrl = buildSearchUrl(input)
    /\ hasNextPage = FALSE
    /\ item = NoItem
    /\ clock = 0
    /\ scroll = NoScroll
    /\ \E seen \in {S \in SUBSET Urls : Cardinality(S) < resultsWanted} :
         /\ seenUrls = seen
         /\ retryCount = [r \in Reqs |-> IF r = ListReq /\ seen # {} THEN 1 ELSE 0]
         /\ addCalls = [u \in Urls |-> IF u \in seen THEN 1 ELSE 0]
         /\ reqState = [r \in Reqs |-> IF r = ListReq THEN "running"
                                       ELSE IF r \in seen THEN "pending" ELSE "none"]
         /\ execs = {[req |-> ListReq, try |-> IF seen # {} THEN 1 ELSE 0, pc |-> "scroll",
                      zombie |-> FALSE, idx |-> 0]}
    /\ collected = 0
    /\ dataset = [u \in Urls |-> 0]
    /\ kvStore = {}
    /\ failedLog = {}
    /\ run = "running"
    /\ summary = -1
    /\ markersSeen = TRUE

NextOrder ==
    \/ \E e \in execs : ListCollect(e)
    \/ \E e \in execs : ListEmptyCaptureDone(e)
    \/ \E e \in execs : ListAdded(e)

OrderSpec == InitOrder /\ [][NextOrder]_vars

\* ---- quantities the claims speak of

RECURSIVE RecordsUpTo(_)
RecordsUpTo(u) == IF u < 1 THEN 0 ELSE dataset[u] + RecordsUpTo(u - 1)

\* the number of records in the dataset
DatasetSize == RecordsUpTo(NumUrls)

\* the number of DETAIL requests in the request queue
DetailRequests == Cardinality({u \in Urls : reqState[u] # "none"})

RunEnded == run \in {"done", "exited"}

\* the number of LIST requests in the request queue
ListRequests == Cardinality({r \in DOMAIN reqState \ Urls : reqState[r] # "none"})

\* ---- the claims

\* C1: in every reachable state the number of records pushed, and the counter
\* collected, is at most resultsWanted.
C1_AtMostWanted == collected <= resultsWanted /\ DatasetSize <= resultsWanted

\* C2: no two records pushed during one run carry the same url.
C2_NoDuplicateUrl == \A u \in Urls : dataset[u] <= 1

\* C3: the number of DETAIL requests enqueued, which is seenUrls.size, never
\* exceeds resultsWanted; links beyond the budget are never requested.
C3_EnqueueWithinBudget ==
    /\ Cardinality(seenUrls) <= resultsWanted
    /\ DetailRequests <= resultsWanted
    /\ \A u \in Urls : u > resultsWanted => reqState[u] = "none"
\* C4: a URL is enqueued as a DETAIL request at most once per run, also when
\* LIST executions that surface the same link interleave; the url is in seenUrls
\* before it is enqueued, and seenUrls only grows.
C4_EnqueuedAtMostOnce ==
    /\ [](\A u \in Urls : /\ addCalls[u] <= 1
                          /\ (addCalls[u] > 0 \/ reqState[u] # "none") => u \in seenUrls)
    /\ [](\A e \in execs : e.pc = "adding" => links[e.idx] \in seenUrls)
    /\ [][seenUrls \subseteq seenUrls']_vars

\* A timed-out LIST execution and its retry are both suspended in addRequests,
\* on different links of the same listing, and a link has been enqueued.
C4_Witness ==
    \E e1, e2 \in execs :
        /\ e1.req = ListReq /\ e2.req = ListReq
        /\ e1.zombie /\ ~e2.zombie
        /\ e1.pc = "adding" /\ e2.pc = "adding"
        /\ e1.idx # e2.idx
        /\ \E u \in Urls : addCalls[u] = 1
C6_TargetClamped ==
    run = "ready" =>
        /\ resultsWanted \in 1..500
        /\ ~input.given => resultsWanted = 50
        /\ (input.given /\ input.value < 1) => resultsWanted = 1
        /\ (input.given /\ input.value > 500) => resultsWanted = 500
        /\ (input.given /\ input.value \in 1..500) => resultsWanted = input.value

\* the input 0 has been read
C6_Witness == run = "ready" /\ input.given /\ input.value = 0 /\ resultsWanted = 1

\* C7: every run terminates: at most resultsWanted DETAIL requests, each request
\* retried a bounded number of times, the total capped by maxRequestsPerCrawl,
\* and the run reaches the summary log and exits.
C7_Terminates ==
    /\ [](/\ DetailRequests <= resultsWanted
          /\ \A r \in Reqs : retryCount[r] <= MaxRetries
          /\ HandledCount <= maxRequestsPerCrawl)
    /\ <>(run = "exited" /\ summary >= 0)

\* The part of C7 that is about the run ending: it reaches the summary and exits.
RunTerminates == <>(run = "exited" /\ summary >= 0)

\* C8: at the end of the run the summary count logged equals the number of
\* records pushed to the dataset.
C8_SummaryIsDatasetSize == RunEnded => summary = DatasetSize

\* C9: a failing DETAIL request is retried a bounded number of times, then
\* abandoned and logged; the run goes on until every queued request has been
\* handled or abandoned, and no record already pushed is removed.
C9_FailureIsolated ==
    /\ [](\A r \in Reqs : /\ retryCount[r] <= MaxRetries
                          /\ reqState[r] = "failed" <=> r \in failedLog
                          /\ reqState[r] = "failed" => retryCount[r] = MaxRetries)
    /\ [][(run = "running" /\ run' = "done") =>
            \A r \in Reqs : reqState[r] \in {"none", "handled", "failed"}]_vars
    /\ [][\A u \in Urls : dataset'[u] >= dataset[u]]_vars
    /\ <>(run = "exited" /\ summary >= 0)

\* One DETAIL request was abandoned and logged; another was handled and its
\* record is in the dataset when the run has ended.
C9_Witness ==
    /\ run = "exited"
    /\ \E u, v \in Urls :
        /\ reqState[u] = "failed" /\ u \in failedLog /\ dataset[u] = 0
        /\ reqState[v] = "handled" /\ dataset[v] = 1

\* C10: a LIST execution whose markers never appear enqueues no DETAIL request
\* and ends by rethrowing, the HTML and the screenshot are saved when its
\* capture completes, and the run still ends with its summary.
C10_MarkerTimeout ==
    /\ [](\A e \in execs : e.pc = "capture" => e.idx = 0)
    /\ [](~markersSeen =>
            /\ seenUrls = {}
            /\ \A u \in Urls : reqState[u] = "none" /\ addCalls[u] = 0)
    /\ [][\A e \in execs : e.pc = "capture" =>
            \/ e \in execs'
            \/ /\ \A f \in execs' : f.req # e.req \/ f.try # e.try
               /\ reqState'[ListReq] \in {"pending", "failed"}
               /\ UNCHANGED <<seenUrls, addCalls>>]_vars
    /\ [][(\E e \in execs : ListCaptureDone(e)) => MarkerDebugKeys \subseteq kvStore']_vars
    /\ <>(run = "exited" /\ summary >= 0)

\* The markers never appeared in any attempt: the LIST request was abandoned
\* with both artifacts saved, nothing was enqueued, and the run ended.
C10_Witness ==
    /\ run = "exited" /\ summary = 0
    /\ ~markersSeen /\ reqState[ListReq] = "failed"
    /\ MarkerDebugKeys \subseteq kvStore
    /\ DetailRequests = 0

\* C11: a failure of the diagnostic capture never aborts the run, and in the
\* empty-listing branch it never turns the LIST execution, which would
\* otherwise complete, into a failed or retried one.
C11_CaptureFailureContained ==
    /\ [][\A e \in execs :
            (e.pc = "emptyCapture" /\ HandlerThrows(e))
                => reqState'[ListReq] \notin {"pending", "failed"}]_vars
    /\ <>(run = "exited" /\ summary >= 0)

\* C12: when the keyword input is missing or empty the run aborts before any
\* task is scheduled: no LIST request is seeded, no page is visited and no
\* record is emitted.
C12_NoKeywordAborts ==
    (~input.keyword.given \/ input.keyword.value = <<>>) =>
        /\ reqState[ListReq] = "none"
        /\ execs = {}
        /\ DatasetSize = 0

\* C13: in the SEARCH/JOB variant, once collected >= resultsWanted no further
\* JOB request is started and no further record is pushed, so the number of
\* records pushed never exceeds resultsWanted.
C13_VariantStopsAtTarget ==
    /\ [](DatasetSize <= maxResults)
    /\ [][collected >= maxResults =>
            /\ dataset' = dataset
            /\ \A u \in Urls : reqState[u] = "pending" => reqState'[u] = "pending"]_vars

\* C14: when a LIST execution has finished discovery, exactly one further LIST
\* request is enqueued if the DETAIL budget is not yet met and the listing has
\* a next-page link; in every other case no LIST request is enqueued.
C14_NextPageEnqueued ==
    [][ListRequests' - ListRequests =
         IF /\ reqState[ListReq] = "running" /\ reqState'[ListReq] = "handled"
            /\ hasNextPage
            /\ Cardinality(seenUrls') < resultsWanted
         THEN 1 ELSE 0]_vars

\* C15: the search URL carries day_range as a function of postedDate alone:
\* 24h gives 1, 7d gives 7, 30d gives 30, anytime or an absent postedDate omit
\* the parameter; the keyword is always carried as the parameter query.
C15_DayRangeFromPostedDate ==
    searchUrl.built =>
        LET params == searchUrl.params
            dayRange == IF "day_range" \in DOMAIN params
                        THEN params["day_range"] ELSE <<"o", "m", "i", "t">>
        IN  /\ "query" \in DOMAIN params
            /\ input.keyword.given => params["query"] = input.keyword.value
            /\ input.postedDate = "24h" => dayRange = <<"1">>
            /\ input.postedDate = "7d" => dayRange = <<"7">>
            /\ input.postedDate = "30d" => dayRange = <<"3", "0">>
            /\ input.postedDate \in {"anytime", "absent"} => "day_range" \notin DOMAIN params

\* A URL was built for postedDate 24h, with a keyword and a location that is
\* not a slug.
C15_Witness ==
    /\ searchUrl.built
    /\ input.postedDate = "24h"
    /\ searchUrl.params["day_range"] = <<"1">>
    /\ input.keyword.given /\ input.keyword.value # <<>>
    /\ searchUrl.params["query"] = input.keyword.value
    /\ input.location.given /\ ~looksSlug(input.location.value)

\* C16: for every non-empty location the search URL reflects the location: a
\* location that matches the slug pattern is a path segment of the URL, and a
\* location that does not match is carried as a query parameter.
C16_LocationReflected ==
    (searchUrl.built /\ input.location.given /\ input.location.value # <<>>) =>
        IF looksSlug(input.location.value)
        THEN searchUrl.segment = input.location.value
        ELSE \E n \in DOMAIN searchUrl.params \ {"query", "day_range"} :
                searchUrl.params[n] = input.location.value

\* the value the precedence rule of C17 asks for: the structured value when
\* present and non-empty, otherwise the text of the DOM element, otherwise null
ByPrecedence(structured, el) ==
    IF Truthy(structured) THEN structured
    ELSE IF el.given /\ trim(el.value) # <<>> THEN Some(trim(el.value))
    ELSE Absent

\* C17: title, company and location each are the structured value when it is
\* present and non-empty, otherwise the DOM value, otherwise null; an empty
\* structured value does not win over a non-empty DOM value.
C17_FieldPrecedence ==
    item.built =>
        /\ item.title = ByPrecedence(LdField(page, "title"), page.h1)
        /\ item.company = ByPrecedence(LdField(page, "company"), page.companyEl)
        /\ item.location = ByPrecedence(extractLocationFromLD(page.ld), page.locationEl)

\* null, or a non-empty string with no space at either end
NullOrTrimmed(f) == ~f.given \/ (f.value # <<>> /\ trim(f.value) = f.value)

\* C18: in every emitted record each of title, company, location,
\* employmentType and descriptionHtml is a non-empty trimmed string or null.
C18_NoEmptyStrings ==
    item.built =>
        /\ NullOrTrimmed(item.title)
        /\ NullOrTrimmed(item.company)
        /\ NullOrTrimmed(item.location)
        /\ NullOrTrimmed(item.employmentType)
        /\ NullOrTrimmed(item.descriptionHtml)

\* the page has a well-formed structured block and no matching DOM element
OnlyStructured(pg) ==
    /\ pg.ld.present
    /\ Truthy(pg.ld.title) /\ Truthy(pg.ld.company) /\ Truthy(pg.ld.description)
    /\ extractLocationFromLD(pg.ld).given
    /\ ~pg.h1.given /\ ~pg.companyEl.given /\ ~pg.locationEl.given
    /\ ~pg.descEl.given /\ ~pg.article.given

\* C19: for a page whose only source is a well-formed structured block, title,
\* company, location and descriptionHtml are the values of the block; a
\* description without markup appears in descriptionHtml wrapped in <p>.
C19_StructuredOnly ==
    (item.built /\ OnlyStructured(page)) =>
        /\ item.title = page.ld.title
        /\ item.company = page.ld.company
        /\ item.location = Some(join(FilterTruthy(page.ld.jobLocation.value)))
        /\ item.descriptionHtml =
             IF HasTag(page.ld.description.value) THEN page.ld.description
             ELSE Some(<<"<", "p", ">">> \o page.ld.description.value
                        \o <<"<", "/", "p", ">">>)

\* C20: a DETAIL task on a page where no tier yields any value (no job
\* posting block, none of the elements, no employment-type word) still
\* completes and emits exactly one record: its request is never reclaimed for
\* a retry nor abandoned, at most one record of it is stored, and one is
\* stored once the request is handled.
NoTierYields(pg) ==
    /\ ~pg.ld.present
    /\ ~pg.h1.given /\ ~pg.companyEl.given /\ ~pg.locationEl.given
    /\ ~pg.descEl.given /\ ~pg.article.given
    /\ pg.bodyText = <<>>

C20_EmptyPageOneRecord ==
    NoTierYields(page) =>
        /\ retryCount[1] = 0
        /\ reqState[1] \notin {"pending", "failed"}
        /\ dataset[1] <= 1
        /\ reqState[1] = "handled" => dataset[1] = 1

\* C21: parseJobPostingJSONLD returns the job posting of the first block, in
\* page order, that holds one (an object typed JobPosting, an array element
\* typed JobPosting, or an object whose mainEntityOfPage is typed JobPosting),
\* skipping malformed blocks; it returns null when no block holds one, and it
\* never returns an object that is not typed JobPosting.
JobPostingOf(blob) ==
    IF blob.kind \in {"malformed", "null"} THEN NoPick
    ELSE IF blob.kind = "array" THEN FindTypedFrom(blob.objs, 1)
    ELSE IF blob.objs[1].type = "JobPosting" THEN Picked(blob.objs[1])
    ELSE IF blob.objs[1].main = "JobPosting" THEN Picked(mainEntityOfPage(blob.objs[1]))
    ELSE NoPick

C21_FirstJobPosting ==
    (item.built /\ "blobs" \in DOMAIN page) =>
        LET qualifying == {i \in 1..Len(page.blobs) : JobPostingOf(page.blobs[i]).found}
        IN  /\ item.ld.found => item.ld.obj.type = "JobPosting"
            /\ item.ld.found <=> qualifying # {}
            /\ \A i \in qualifying :
                 (\A j \in qualifying : i <= j) => item.ld = JobPostingOf(page.blobs[i])

\* C22: a structured employmentType given as a list is emitted as its distinct
\* values in first-occurrence order joined with ", ", and duplicates in the
\* list make no difference; a single string is emitted unchanged; an absent
\* value or an empty string is normalized to null, and the type is then
\* guessed from the text of the page.
RECURSIVE KeepFirst(_, _)
KeepFirst(arr, i) ==
    IF i > Len(arr) THEN <<>>
    ELSE (IF \A j \in 1..(i - 1) : arr[j] # arr[i] THEN <<arr[i]>> ELSE <<>>)
         \o KeepFirst(arr, i + 1)

NoStructuredType(pg) ==
    \/ ~pg.ld.present
    \/ pg.ld.employmentType.kind = "absent"
    \/ pg.ld.employmentType.kind = "string" /\ pg.ld.employmentType.str = <<>>

InText(t, text) == \E k \in 1..Len(text) : LowerCase(text[k]) \in TokenForms(t)

TokensFound(vocabulary, text) ==
    LET found == SelectSeq(vocabulary, LAMBDA t : InText(t, text))
    IN  IF found = <<>> THEN Absent
        ELSE Some(join([i \in 1..Len(found) |-> <<found[i]>>]))

C23_TypeFromVocabulary ==
    (item.built /\ NoStructuredType(page)) =>
        /\ item.employmentType
             = TokensFound(<<"Full-time", "Part-time", "Contract", "Temporary",
                             "Internship", "Apprenticeship", "Freelance">>, page.bodyText)
        /\ item.employmentType = Absent
             <=> \A k \in 1..Len(page.bodyText) :
                    LowerCase(page.bodyText[k]) \notin
                        UNION {TokenForms(tokens[i]) : i \in 1..Len(tokens)}

\* C23 as stated, with the vocabulary full-time, part-time, contract,
\* temporary, internship, freelance
C23_TypeFromSixTokens ==
    (item.built /\ NoStructuredType(page)) =>
        /\ item.employmentType = TokensFound(tokensWithoutApprenticeship, page.bodyText)
        /\ item.employmentType = Absent
             <=> \A i \in 1..Len(tokensWithoutApprenticeship) :
                    ~InText(tokensWithoutApprenticeship[i], page.bodyText)

C23_Witness ==
    /\ item.built /\ NoStructuredType(page)
    /\ page.bodyText = <<"apprenticeship", "Contract">>
    /\ item.employmentType = Some(<<"Contract", ", ", "Apprenticeship">>)
    /\ dataset[1] = 1

InScrollLoop == \E e \in execs : e.req = ListReq /\ e.pc = "scroll"

C25_ScrollStopsAtTarget ==
    /\ [](/\ scroll.passes <= ScrollPasses
          /\ (InScrollLoop /\ scroll.passes > 0) =>
                (scroll.done <=> \/ scroll.seen >= resultsWanted
                                 \/ scroll.seen = scroll.prev
                                 \/ scroll.passes = ScrollPasses))
    /\ [][scroll.done => scroll' = scroll]_vars

\* C25 as stated: the loop stops at the first pass after which the count meets
\* or exceeds the remaining target, the target minus the DETAIL requests
\* already enqueued
C25_ScrollStopsAtRemaining ==
    (InScrollLoop /\ scroll.passes > 0) =>
        (scroll.done <=> \/ scroll.seen >= resultsWanted - DetailRequests
                         \/ scroll.seen = scroll.prev
                         \/ scroll.passes = ScrollPasses)

C25_Witness ==
    /\ InScrollLoop /\ scroll.done
    /\ scroll.passes >= 2 /\ scroll.passes < ScrollPasses
    /\ scroll.seen >= resultsWanted /\ scroll.seen # scroll.prev
    /\ DetailRequests > 0

\* C26: within one LIST execution the DETAIL requests are enqueued one at a
\* time in discovery order (the top-level links first, then the shadow-tree
\* and iframe links not already present): the url of each enqueue call was not
\* in seenUrls, every link discovered before it is in seenUrls already, and it
\* comes later in the discovery order than the url of the call before.
Discovery == page.mainLinks \o page.deepLinks

FirstPos(u) == CHOOSE i \in 1..Len(Discovery) :
                   Discovery[i] = u /\ \A j \in 1..(i - 1) : Discovery[j] # u

C26_DiscoveryOrder ==
    [][\A e \in execs : \A f \in execs' :
          (e.req = ListReq /\ f.req = ListReq /\ f.pc = "adding" /\ f # e) =>
              LET u == links[f.idx]
              IN  /\ u \notin seenUrls
                  /\ \A j \in 1..(FirstPos(u) - 1) : Discovery[j] \in seenUrls
                  /\ e.pc = "adding" => FirstPos(links[e.idx]) < FirstPos(u)]_vars

C26_Witness ==
    /\ "mainLinks" \in DOMAIN page
    /\ Len(page.mainLinks) = 1 /\ Len(page.deepLinks) = 2
    /\ page.deepLinks[1] = page.mainLinks[1]
    /\ \E e \in execs : e.pc = "adding" /\ e.idx = 2 /\ links[2] = page.deepLinks[2]
    /\ addCalls[page.mainLinks[1]] = 1

\* C27: a LIST page on which discovery yields no detail link is not an error:
\* the execution that found no link ends with its request handled, not
\* reclaimed for a retry nor abandoned, no DETAIL request is enqueued, and the
\* run ends with its summary.
C27_EmptyListingCompletes ==
    /\ [](numLinks = 0 => DetailRequests = 0 /\ seenUrls = {})
    /\ [][\A e \in execs :
            (e.req = ListReq /\ e.pc = "emptyCapture")
                => (e \in execs' \/ reqState'[ListReq] = "handled")]_vars
    /\ <>(run = "exited" /\ summary >= 0)

\* C28: when the run has ended, every DETAIL request that was handled
\* successfully has exactly one record, every DETAIL request abandoned after
\* its retries has none, and the number of records in the dataset is the
\* number of DETAIL requests handled successfully.
C28_OneRecordPerHandled ==
    run = "exited" =>
        /\ \A u \in Urls : reqState[u] = "handled" => dataset[u] = 1
        /\ \A u \in Urls : reqState[u] = "failed" => dataset[u] = 0
        /\ DatasetSize = Cardinality({u \in Urls : reqState[u] = "handled"})

\* C29: once the handler timeout has declared an execution failed and its
\* request is scheduled for retry, that execution makes no further change to
\* seenUrls, to collected or to the dataset: a step taken by a timed-out
\* execution leaves the three unchanged.
TimedOutStep ==
    \E e \in execs : /\ e.zombie
                     /\ e \notin execs'
                     /\ \A f \in execs' \ execs : f.req = e.req /\ f.try = e.try /\ f.zombie

C29_TimedOutMakesNoChange ==
    [][TimedOutStep => UNCHANGED <<seenUrls, collected, dataset>>]_vars

\* C30: in every reachable state collected <= seenUrls.size, and the url of
\* every record in the dataset is in seenUrls: a record is only emitted for a
\* url a LIST handler enqueued as a DETAIL request.
C30_CollectedWithinSeen ==
    /\ collected <= Cardinality(seenUrls)
    /\ \A u \in Urls : dataset[u] > 0 => u \in seenUrls /\ addCalls[u] > 0

====
